---- MODULE Spec2Model ----
(***************************************************************************)
(* Model of src/lib/api.ts: the Binance market-data client.                *)
(*                                                                         *)
(*   - the stream handle: the module-level `ws`, initializeWebSocket,      *)
(*     closeWebSocket and the ws.onmessage handler (specification Spec);   *)
(*   - the catalog ranker: fetchTopTokens (specification RankSpec).        *)
(*                                                                         *)
(* JavaScript strings are sequences of one-character strings, so that      *)
(* toLowerCase, includes, join and parseFloat are computed, not assumed.   *)
(* JavaScript numbers are integers plus the value NaN.                     *)
(***************************************************************************)
EXTENDS Integers, Sequences, FiniteSets, TLC

\* ------------------------------------------------------------------ bounds

\* Connections initializeWebSocket may create in one run.
MaxConns == 2
\* Messages the exchange sends in one run (in flight or already notified).
MaxMsgs == 1
\* Length of the symbols array passed to initializeWebSocket.
MaxSymbols == 2

\* ------------------------------------------------------------ JS strings

UpperChars == <<"A","B","C","D","E","F","G","H","I","J","K","L","M",
                "N","O","P","Q","R","S","T","U","V","W","X","Y","Z">>
LowerChars == <<"a","b","c","d","e","f","g","h","i","j","k","l","m",
                "n","o","p","q","r","s","t","u","v","w","x","y","z">>
Digits == <<"0","1","2","3","4","5","6","7","8","9">>

\* The absent property / absent argument.
Undefined == <<"undefined">>
\* JavaScript numbers: an integer, or the number that is not a number.
Num(n) == [nan |-> FALSE, v |-> n]
NaN == [nan |-> TRUE, v |-> 0]
\* The null handle.
Null == 0

\* One character of String.prototype.toLowerCase.
LowerChar(ch) ==
  IF \E i \in 1..26 : UpperChars[i] = ch
    THEN LowerChars[CHOOSE i \in 1..26 : UpperChars[i] = ch]
    ELSE ch

\* String.prototype.toLowerCase.
toLowerCase(s) == [i \in 1..Len(s) |-> LowerChar(s[i])]

\* String.prototype.includes.
includes(s, sub) ==
  \E i \in 0..(Len(s) - Len(sub)) :
    \A k \in 1..Len(sub) : s[i + k] = sub[k]

\* Array.prototype.join.
RECURSIVE join(_, _)
join(parts, sep) ==
  IF Len(parts) = 0 THEN <<>>
  ELSE IF Len(parts) = 1 THEN parts[1]
  ELSE parts[1] \o sep \o join(Tail(parts), sep)

\* The value of one decimal digit character.
DigitValue(ch) == (CHOOSE i \in 1..10 : Digits[i] = ch) - 1
IsDigit(ch) == \E i \in 1..10 : Digits[i] = ch

\* The integer read from the longest run of digits at the head of s, given
\* the value read so far.
RECURSIVE ReadDigits(_, _)
ReadDigits(s, acc) ==
  IF Len(s) = 0 \/ ~IsDigit(s[1]) THEN acc
  ELSE ReadDigits(Tail(s), 10 * acc + DigitValue(s[1]))

\* Leading white space is skipped by parseFloat.
RECURSIVE TrimStart(_)
TrimStart(s) == IF Len(s) > 0 /\ s[1] = " " THEN TrimStart(Tail(s)) ELSE s

\* parseFloat: an optional sign and the longest numeric prefix; NaN when
\* there is none (also for undefined, which reads as "undefined").
parseFloat(str) ==
  LET s == TrimStart(str)
      neg == Len(s) > 0 /\ s[1] = "-"
      body == IF Len(s) > 0 /\ s[1] \in {"-", "+"} THEN Tail(s) ELSE s
  IN IF str = Undefined \/ Len(body) = 0 \/ ~IsDigit(body[1]) THEN NaN
     ELSE IF neg THEN Num(0 - ReadDigits(body, 0)) ELSE Num(ReadDigits(body, 0))

\* ------------------------------------------------------- the stream handle

VARIABLES
  ws,        \* the module-level handle: Null or the index of a connection
  conns,     \* every WebSocket created so far: [readyState, url, inbox]
  events,    \* the priceUpdate events dispatched on window, in order
  errors,    \* exceptions that escaped a handler (JSON.parse of a bad frame)
  dropped,   \* frames that arrived on a socket no longer OPEN: no message event
  pc,        \* position of the running call: "idle" or "init_create"
  symbols,   \* argument of the initializeWebSocket call that is running
  lastCall   \* the last exported call that completed, and whether it found a handle

streamVars == <<ws, conns, events, errors, dropped, pc, symbols, lastCall>>

\* The catalog ranker's state (fetchTopTokens).
VARIABLES
  rpc,          \* position of fetchTopTokens: idle, awaitCatalog, awaitTicker, done
  limit,        \* its argument: <<>> when omitted, <<n>> when given
  exchangeInfo, \* the response to GET /api/v3/exchangeInfo
  usdtPairs,    \* the filtered catalog
  ticker24hr,   \* the response to GET /api/v3/ticker/24hr
  result,       \* the Token[] the promise resolved with
  outcome       \* pending, returned, or threw (the promise rejected)

rankVars == <<rpc, limit, exchangeInfo, usdtPairs, ticker24hr, result, outcome>>

vars == <<streamVars, rankVars>>

\* Symbols callers subscribe to (mixed case: the exchange's are upper case).
StreamSymbols == { <<"B","T","C">>, <<"s","O","L">> }

RECURSIVE SeqsUpTo(_, _)
SeqsUpTo(S, n) ==
  IF n = 0 THEN { <<>> }
  ELSE LET shorter == SeqsUpTo(S, n - 1)
       IN shorter \cup { Append(q, x) : q \in shorter, x \in S }

\* The arrays passed to initializeWebSocket: a set of symbols in some order.
SymbolArrays ==
  { q \in SeqsUpTo(StreamSymbols, MaxSymbols) :
      \A i, j \in 1..Len(q) : i # j => q[i] # q[j] }

AtTicker == <<"@","t","i","c","k","e","r">>

\* Mutant of streamName: the symbol is not lower-cased.
streamName_asGiven(symbol) == symbol \o AtTicker

\* `${symbol.toLowerCase()}@ticker`
streamName(symbol) == toLowerCase(symbol) \o AtTicker

\* symbols.map(symbol => `${symbol.toLowerCase()}@ticker`).join('/')
streams(syms) == join([i \in 1..Len(syms) |-> streamName(syms[i])], <<"/">>)

\* Frames the exchange may send: a ticker payload, a frame without a data
\* field (a subscription acknowledgement), and a frame that is not JSON.
PriceStrings == { <<"6","5">>, <<"x">> }
Frames ==
  [data : [s : { <<"B","T","C">> }, c : PriceStrings]]
    \cup { [result |-> "null"] }
    \cup { [malformed |-> TRUE] }

StreamInit ==
  /\ ws = Null
  /\ conns = <<>>
  /\ events = <<>>
  /\ errors = 0
  /\ dropped = <<>>
  /\ pc = "idle"
  /\ symbols = <<>>
  /\ lastCall = [op |-> "none", hadHandle |-> FALSE]

\* Mutant of close: the call is forgotten, the socket stays as it was.
close_noop(cs, c) == cs

\* WebSocket.close(): an open or connecting socket starts closing; on a
\* closing or closed one it does nothing.
close(cs, c) ==
  IF cs[c].readyState \in {"CONNECTING", "OPEN"}
    THEN [cs EXCEPT ![c].readyState = "CLOSING"]
    ELSE cs

\* new WebSocket(url): a fresh connecting socket with nothing received.
newWebSocket(url) == [readyState |-> "CONNECTING", url |-> url, inbox |-> <<>>]

\* typeof window !== 'undefined', line 144: the module runs in a browser
\* page, where the global window exists.
windowDefined == TRUE

\* Mutant of onmessage: the `if (data.data)` test is missing, so a frame
\* without a payload dispatches an event too.
onmessage_noDataCheck(frame, evs, errs) ==
  IF "malformed" \in DOMAIN frame THEN [events |-> evs, errors |-> errs + 1]
  ELSE IF "data" \in DOMAIN frame
    THEN [events |-> Append(evs, [symbol |-> frame.data.s,
                                  price |-> parseFloat(frame.data.c)]),
          errors |-> errs]
    ELSE [events |-> Append(evs, [symbol |-> Undefined, price |-> NaN]),
          errors |-> errs]

\* ws.onmessage (lines 140-154): JSON.parse throws on a frame that is not
\* JSON; a frame with a data field dispatches one priceUpdate on window.
onmessage(frame, evs, errs) ==
  IF "malformed" \in DOMAIN frame THEN [events |-> evs, errors |-> errs + 1]
  ELSE IF "data" \in DOMAIN frame /\ windowDefined
    THEN [events |-> Append(evs, [symbol |-> frame.data.s,
                                  price |-> parseFloat(frame.data.c)]),
          errors |-> errs]
    ELSE [events |-> evs, errors |-> errs]

\* Mutant of initializeWebSocketClose: the existing connection is left open.
initializeWebSocketClose_keepOld(syms) ==
  /\ pc = "idle"
  /\ Len(conns) < MaxConns
  /\ symbols' = syms
  /\ pc' = "init_create"
  /\ UNCHANGED <<ws, conns, events, errors, dropped, lastCall>>
  /\ UNCHANGED rankVars

\* initializeWebSocket(syms), lines 129-133: close the existing connection.
initializeWebSocketClose(syms) ==
  /\ pc = "idle"
  /\ Len(conns) < MaxConns
  /\ conns' = IF ws # Null THEN close(conns, ws) ELSE conns
  /\ symbols' = syms
  /\ pc' = "init_create"
  /\ UNCHANGED <<ws, events, errors, dropped, lastCall>>
  /\ UNCHANGED rankVars

\* initializeWebSocket, lines 135-157: open the new connection, make it the
\* handle, attach the message handler and return it.
initializeWebSocketCreate ==
  /\ pc = "init_create"
  /\ conns' = Append(conns, newWebSocket(streams(symbols)))
  /\ ws' = Len(conns) + 1
  /\ pc' = "idle"
  /\ symbols' = <<>>
  /\ lastCall' = [op |-> "initializeWebSocket", hadHandle |-> ws # Null]
  /\ UNCHANGED <<events, errors, dropped>>
  /\ UNCHANGED rankVars

\* Mutant of closeWebSocket: the connection is closed, the handle is kept.
closeWebSocket_keepHandle ==
  /\ pc = "idle"
  /\ conns' = IF ws # Null THEN close(conns, ws) ELSE conns
  /\ lastCall' = [op |-> "closeWebSocket", hadHandle |-> ws # Null]
  /\ UNCHANGED <<ws, events, errors, dropped, pc, symbols>>
  /\ UNCHANGED rankVars

\* closeWebSocket(), lines 159-164.
closeWebSocket ==
  /\ pc = "idle"
  /\ IF ws # Null
       THEN /\ conns' = close(conns, ws)
            /\ ws' = Null
       ELSE UNCHANGED <<ws, conns>>
  /\ lastCall' = [op |-> "closeWebSocket", hadHandle |-> ws # Null]
  /\ UNCHANGED <<events, errors, dropped, pc, symbols>>
  /\ UNCHANGED rankVars

\* The connection is established.
ConnectionOpens(c) ==
  /\ pc = "idle"
  /\ conns[c].readyState = "CONNECTING"
  /\ conns' = [conns EXCEPT ![c].readyState = "OPEN"]
  /\ UNCHANGED <<ws, events, errors, dropped, pc, symbols, lastCall>>
  /\ UNCHANGED rankVars

\* The connection ends: the closing handshake completes, the exchange or the
\* network drops it, or it never gets established. Nothing reconnects.
ConnectionCloses(c) ==
  /\ pc = "idle"
  /\ conns[c].readyState # "CLOSED"
  /\ conns' = [conns EXCEPT ![c].readyState = "CLOSED"]
  /\ UNCHANGED <<ws, events, errors, dropped, pc, symbols, lastCall>>
  /\ UNCHANGED rankVars

InFlight == LET RECURSIVE Sum(_)
                Sum(i) == IF i = 0 THEN 0 ELSE Len(conns[i].inbox) + Sum(i - 1)
            IN Sum(Len(conns))

\* The exchange sends a frame on an established connection; it may still do
\* so while the client's close is under way.
ServerSends(c, frame) ==
  /\ pc = "idle"
  /\ conns[c].readyState \in {"OPEN", "CLOSING"}
  /\ InFlight + Len(events) + errors + Len(dropped) < MaxMsgs
  /\ conns' = [conns EXCEPT ![c].inbox = Append(@, frame)]
  /\ UNCHANGED <<ws, events, errors, dropped, pc, symbols, lastCall>>
  /\ UNCHANGED rankVars

\* A received frame is handed to the page: the message event fires, and
\* ws.onmessage runs, only while the socket is OPEN; otherwise the frame is
\* discarded.
MessageReceived(c) ==
  /\ pc = "idle"
  /\ conns[c].inbox # <<>>
  /\ conns' = [conns EXCEPT ![c].inbox = Tail(@)]
  /\ IF conns[c].readyState = "OPEN"
       THEN LET r == onmessage(Head(conns[c].inbox), events, errors)
            IN /\ events' = r.events
               /\ errors' = r.errors
               /\ UNCHANGED dropped
       ELSE /\ dropped' = Append(dropped, Head(conns[c].inbox))
            /\ UNCHANGED <<events, errors>>
  /\ UNCHANGED <<ws, pc, symbols, lastCall>>
  /\ UNCHANGED rankVars


\* One step of the stream handle: a call of the page, or an event of a socket.
StreamNext ==
  \/ \E syms \in SymbolArrays : initializeWebSocketClose(syms)
  \/ initializeWebSocketCreate
  \/ closeWebSocket
  \/ \E c \in DOMAIN conns : ConnectionOpens(c)
  \/ \E c \in DOMAIN conns : ConnectionCloses(c)
  \/ \E c \in DOMAIN conns, frame \in Frames : ServerSends(c, frame)
  \/ \E c \in DOMAIN conns : MessageReceived(c)

\* ------------------------------------------------------ the catalog ranker

\* Instruments of one exchangeInfo response.
MaxCatalog == 3
\* Largest limit a caller passes to fetchTopTokens.
MaxLimit == 2

\* fetchTopTokens(limit: number = 300), line 33.
DefaultLimit == 300

\* List of major cryptocurrencies to prioritize, lines 24-30.
MAJOR_TOKENS == <<
  <<"B","T","C">>,
  <<"E","T","H">>,
  <<"B","N","B">>,
  <<"X","R","P">>,
  <<"A","D","A">>,
  <<"D","O","G","E">>,
  <<"M","A","T","I","C">>,
  <<"S","O","L">>,
  <<"D","O","T">>,
  <<"L","T","C">>,
  <<"A","V","A","X">>,
  <<"L","I","N","K">>,
  <<"U","N","I">>,
  <<"A","T","O","M">>,
  <<"E","T","C">>,
  <<"X","L","M">>,
  <<"B","C","H">>,
  <<"F","I","L">>,
  <<"A","L","G","O">>,
  <<"I","C","P">>,
  <<"V","E","T">>,
  <<"M","A","N","A">>,
  <<"S","A","N","D">>,
  <<"A","X","S">>,
  <<"T","H","E","T","A">>,
  <<"X","T","Z">>,
  <<"E","O","S">>,
  <<"A","A","V","E">>,
  <<"C","A","K","E">>,
  <<"M","K","R">>,
  <<"S","N","X">>,
  <<"C","O","M","P">>,
  <<"Y","F","I">>,
  <<"S","U","S","H","I">>,
  <<"1","I","N","C","H">>,
  <<"E","N","J">>,
  <<"B","A","T">>,
  <<"Z","I","L">>,
  <<"I","O","T","A">>,
  <<"N","E","O">>,
  <<"W","A","V","E","S">>,
  <<"D","A","S","H">>,
  <<"Z","E","C">>,
  <<"X","M","R">>,
  <<"Q","T","U","M">>,
  <<"O","N","T">>,
  <<"I","O","S","T">>,
  <<"O","M","G">>,
  <<"Z","R","X">>,
  <<"K","N","C">> >>


\* The exchange's instruments a catalog is drawn from: tradable USDT pairs of
\* major and other assets, leveraged tokens, a pair quoted in BTC, a pair
\* that is not trading.
Instruments == {
  [symbol |-> <<"B","T","C","U","S","D","T">>, baseAsset |-> <<"B","T","C">>,
   quoteAsset |-> "USDT", status |-> "TRADING"],
  [symbol |-> <<"E","T","H","U","S","D","T">>, baseAsset |-> <<"E","T","H">>,
   quoteAsset |-> "USDT", status |-> "TRADING"],
  [symbol |-> <<"P","E","P","E","U","S","D","T">>, baseAsset |-> <<"P","E","P","E">>,
   quoteAsset |-> "USDT", status |-> "TRADING"],
  [symbol |-> <<"B","T","C","U","P","U","S","D","T">>, baseAsset |-> <<"B","T","C","U","P">>,
   quoteAsset |-> "USDT", status |-> "TRADING"],
  [symbol |-> <<"E","T","H","D","O","W","N","U","S","D","T">>, baseAsset |-> <<"E","T","H","D","O","W","N">>,
   quoteAsset |-> "USDT", status |-> "TRADING"],
  [symbol |-> <<"E","T","H","B","T","C">>, baseAsset |-> <<"E","T","H">>,
   quoteAsset |-> "BTC", status |-> "TRADING"],
  [symbol |-> <<"L","T","C","U","S","D","T">>, baseAsset |-> <<"L","T","C">>,
   quoteAsset |-> "USDT", status |-> "BREAK"] }

SeqElems(q) == { q[i] : i \in 1..Len(q) }

\* Catalogs: up to MaxCatalog instruments, no symbol twice.
Catalogs ==
  { q \in SeqsUpTo(Instruments, MaxCatalog) : Cardinality(SeqElems(q)) = Len(q) }

\* The string-encoded numbers of a ticker: a property may be absent, empty,
\* a number, or not a number at all.
VolumeStrings == { Undefined, <<"5">>, <<"1","2">>, <<"x">> }
PriceFields ==
  { [lastPrice |-> <<"6","5">>, quoteVolume |-> <<"9">>,
     priceChangePercent |-> <<"-","3">>],
    [lastPrice |-> <<"x">>, quoteVolume |-> <<>>,
     priceChangePercent |-> Undefined] }

\* Symbols the snapshot may report (ETHUSDT is never reported: its ticker
\* is the missing one).
TickerSymbols ==
  << <<"B","T","C","U","S","D","T">>, <<"P","E","P","E","U","S","D","T">> >>

TickersOf(symbol) ==
  { [symbol |-> symbol, lastPrice |-> f.lastPrice, quoteVolume |-> f.quoteVolume,
     priceChangePercent |-> f.priceChangePercent, volume |-> v] :
       f \in PriceFields, v \in VolumeStrings }

\* Ticker snapshots: for each symbol at most one ticker.
RECURSIVE TickerLists(_)
TickerLists(i) ==
  IF i > Len(TickerSymbols) THEN { <<>> }
  ELSE LET rest == TickerLists(i + 1)
       IN rest \cup { <<t>> \o r : t \in TickersOf(TickerSymbols[i]), r \in rest }

\* What a fetch settles with: a network error (the promise rejects), a
\* response with a non-success status, or a success with its JSON body.
Pending == [kind |-> "pending"]
Responses(bodies) ==
  { [kind |-> "networkError"], [kind |-> "response", ok |-> FALSE] }
    \cup { [kind |-> "response", ok |-> TRUE, body |-> b] : b \in bodies }

LimitArgs == { <<>> } \cup { <<n>> : n \in (0 - 1)..MaxLimit }

RankInit ==
  /\ rpc = "idle"
  /\ limit = <<>>
  /\ exchangeInfo = Pending
  /\ usdtPairs = <<>>
  /\ ticker24hr = Pending
  /\ result = <<>>
  /\ outcome = "pending"

Init == StreamInit /\ RankInit

\* Mutant of slice: the array is returned whole.
slice_whole(arr, end) == arr

\* Array.prototype.slice(0, end): a negative end counts from the back.
slice(arr, end) ==
  LET final == IF end < 0 THEN (IF Len(arr) + end < 0 THEN 0 ELSE Len(arr) + end)
               ELSE (IF end > Len(arr) THEN Len(arr) ELSE end)
  IN SubSeq(arr, 1, final)

UP == <<"U","P">>
DOWN == <<"D","O","W","N">>

\* Mutant of isUsdtPair: the status is not tested.
isUsdtPair_anyStatus(symbol) ==
  /\ symbol.quoteAsset = "USDT"
  /\ ~includes(symbol.symbol, DOWN)
  /\ ~includes(symbol.symbol, UP)

\* The usdtPairs filter, lines 45-50.
isUsdtPair(symbol) ==
  /\ symbol.quoteAsset = "USDT"
  /\ symbol.status = "TRADING"
  /\ ~includes(symbol.symbol, DOWN)
  /\ ~includes(symbol.symbol, UP)

\* data.symbols.filter(...), lines 44-50.
RECURSIVE filterUsdtPairs(_)
filterUsdtPairs(arr) ==
  IF Len(arr) = 0 THEN <<>>
  ELSE (IF isUsdtPair(arr[1]) THEN <<arr[1]>> ELSE <<>>) \o filterUsdtPairs(Tail(arr))

\* tickerMap.get(symbol), lines 59, 64, 87: Map keeps the last entry of a key.
NoTicker == [symbol |-> Undefined, lastPrice |-> Undefined, quoteVolume |-> Undefined,
             priceChangePercent |-> Undefined, volume |-> Undefined]
tickerMapGet(tickerData, symbol) ==
  LET at == { i \in 1..Len(tickerData) : tickerData[i].symbol = symbol }
  IN IF at = {} THEN NoTicker
     ELSE tickerData[CHOOSE i \in at : \A j \in at : j <= i]

\* parseFloat(ticker?.field || '0'): undefined and the empty string are falsy.
parseOrZero(field) ==
  parseFloat(IF field = Undefined \/ field = <<>> THEN <<"0">> ELSE field)

\* MAJOR_TOKENS.includes(pair.baseAsset) ? 1 : 0, line 67.
priorityOf(pair) ==
  IF \E i \in 1..Len(MAJOR_TOKENS) : MAJOR_TOKENS[i] = pair.baseAsset THEN 1 ELSE 0

\* The map of lines 63-73.
withVolume(pair, tickerData) ==
  [pair |-> pair,
   volume |-> parseOrZero(tickerMapGet(tickerData, pair.symbol).volume),
   priority |-> priorityOf(pair)]

\* Number subtraction: NaN when either side is.
Minus(x, y) == IF x.nan \/ y.nan THEN NaN ELSE Num(x.v - y.v)

\* The comparator of lines 74-81.
compare(a, b) ==
  IF a.priority # b.priority THEN Num(b.priority - a.priority)
  ELSE Minus(b.volume, a.volume)

\* Array.prototype.sort reads a comparator result of NaN as +0.
SortCompare(a, b) ==
  LET v == compare(a, b)
  IN IF v.nan THEN 0 ELSE IF v.v < 0 THEN 0 - 1 ELSE IF v.v > 0 THEN 1 ELSE 0

\* Whether the comparator is a consistent comparator for the elements of arr
\* (ECMAScript, Array.prototype.sort): it orders them as a strict weak order.
ConsistentComparator(arr) ==
  \A a, b, c \in SeqElems(arr) :
    /\ SortCompare(a, a) = 0
    /\ SortCompare(a, b) = 0 - SortCompare(b, a)
    /\ (SortCompare(a, b) = 0 /\ SortCompare(b, c) = 0) => SortCompare(a, c) = 0
    /\ (SortCompare(a, b) < 0 /\ SortCompare(b, c) < 0) => SortCompare(a, c) < 0
    /\ (SortCompare(a, b) > 0 /\ SortCompare(b, c) > 0) => SortCompare(a, c) > 0

IndexPermutations(n) ==
  { f \in [1..n -> 1..n] : \A i, j \in 1..n : i # j => f[i] # f[j] }

\* Array.prototype.sort: the stable sorted order when the comparator is
\* consistent, otherwise an order the implementation defines (any one).
sortOutcomes(arr) ==
  LET n == Len(arr)
      stable(f) == \A i, j \in 1..n : i < j =>
                     LET v == SortCompare(arr[f[i]], arr[f[j]])
                     IN v < 0 \/ (v = 0 /\ f[i] < f[j])
  IN IF ConsistentComparator(arr)
       THEN { [i \in 1..n |-> arr[f[i]]] : f \in { g \in IndexPermutations(n) : stable(g) } }
       ELSE { [i \in 1..n |-> arr[f[i]]] : f \in IndexPermutations(n) }

\* The Token of lines 86-102.
toToken(pair, tickerData) ==
  LET ticker == tickerMapGet(tickerData, pair.symbol)
  IN [id |-> pair.symbol,
      symbol |-> pair.baseAsset,
      name |-> pair.baseAsset,
      image |-> <<"https://cryptologos.cc/logos/">> \o toLowerCase(pair.baseAsset)
                  \o <<"-logo.png">>,
      current_price |-> parseOrZero(ticker.lastPrice),
      market_cap |-> parseOrZero(ticker.quoteVolume),
      market_cap_rank |-> Num(0),
      price_change_percentage_24h |-> parseOrZero(ticker.priceChangePercent),
      volume_24h |-> parseOrZero(ticker.volume),
      quoteAsset |-> pair.quoteAsset,
      baseAsset |-> pair.baseAsset]

\* A fetch that makes the try block throw: the promise rejected, or
\* response.ok is false (lines 38-40, 54-56).
fetchFailed(resp) == resp.kind = "networkError" \/ ~resp.ok

\* Mutant of catch: the error is thrown on to the caller.
catch_rethrow ==
  /\ result' = <<>>
  /\ outcome' = "threw"
  /\ rpc' = "done"

\* The catch block, lines 103-106: log and return [].
catch ==
  /\ result' = <<>>
  /\ outcome' = "returned"
  /\ rpc' = "done"

\* fetchTopTokens(limit) is called, lines 33-36: the catalog is requested.
fetchTopTokens(arg) ==
  /\ rpc = "idle"
  /\ limit' = arg
  /\ rpc' = "awaitCatalog"
  /\ UNCHANGED <<exchangeInfo, usdtPairs, ticker24hr, result, outcome, streamVars>>

\* The catalog request settles, lines 36-53.
exchangeInfoSettles(resp) ==
  /\ rpc = "awaitCatalog"
  /\ exchangeInfo' = resp
  /\ IF fetchFailed(resp)
       THEN catch /\ UNCHANGED usdtPairs
       ELSE /\ usdtPairs' = filterUsdtPairs(resp.body)
            /\ rpc' = "awaitTicker"
            /\ UNCHANGED <<result, outcome>>
  /\ UNCHANGED <<limit, ticker24hr, streamVars>>

\* The ticker request settles, lines 53-102.
ticker24hrSettles(resp) ==
  /\ rpc = "awaitTicker"
  /\ ticker24hr' = resp
  /\ IF fetchFailed(resp)
       THEN catch
       ELSE \E sorted \in sortOutcomes([i \in 1..Len(usdtPairs) |->
                                          withVolume(usdtPairs[i], resp.body)]) :
              LET sortedPairs == slice(sorted, IF limit = <<>> THEN DefaultLimit
                                                ELSE limit[1])
              IN /\ result' = [i \in 1..Len(sortedPairs) |->
                                 toToken(sortedPairs[i].pair, resp.body)]
                 /\ outcome' = "returned"
                 /\ rpc' = "done"
  /\ UNCHANGED <<limit, exchangeInfo, usdtPairs, streamVars>>

CatalogResponses == Responses(Catalogs)
TickerResponses == Responses(TickerLists(1))

RankNext ==
  \/ \E arg \in LimitArgs : fetchTopTokens(arg)
  \/ rpc = "awaitCatalog" /\ \E resp \in CatalogResponses : exchangeInfoSettles(resp)
  \/ rpc = "awaitTicker" /\ \E resp \in TickerResponses : ticker24hrSettles(resp)

\* fetchTopTokens and the stream handle share no state: each is checked under
\* a specification of its own.
RankSpec == Init /\ [][RankNext]_vars
Spec == Init /\ [][StreamNext]_vars

\* ------------------------------------------- claims on the stream handle

\* A connection that can still be established or deliver messages.
Live(c) == conns[c].readyState \in {"CONNECTING", "OPEN"}
LiveConns == { c \in DOMAIN conns : Live(c) }

\* C1: in every reachable state, also between the two halves of
\* initializeWebSocket, at most one connection created by the module is
\* live, and none is while the handle is cleared.
C1_AtMostOneLive ==
  /\ Cardinality(LiveConns) <= 1
  /\ ws = Null => LiveConns = {}

\* A second initializeWebSocket replaced a connection that was live: the
\* old one is closing, the new one is the only live one.
C1_Witness ==
  /\ Len(conns) = 2
  /\ ws = 2
  /\ conns[1].readyState = "CLOSING"
  /\ LiveConns = {2}

\* The channels a combined-stream path subscribes to: its non-empty
\* segments between "/".
RECURSIVE SplitChannels(_, _)
SplitChannels(path, cur) ==
  IF Len(path) = 0 THEN (IF cur = <<>> THEN {} ELSE {cur})
  ELSE IF path[1] = "/"
    THEN (IF cur = <<>> THEN {} ELSE {cur}) \cup SplitChannels(Tail(path), <<>>)
    ELSE SplitChannels(Tail(path), Append(cur, path[1]))

\* C2: when initializeWebSocket(S) returns, the handle is the connection it
\* just created, that connection is subscribed to exactly lower(s)@ticker for
\* s in S, and every earlier connection was closed before it was opened.
C2_InitReturns ==
  [][(pc = "init_create" /\ pc' = "idle") =>
       /\ Len(conns') = Len(conns) + 1
       /\ ws' = Len(conns')
       /\ conns'[ws'].readyState = "CONNECTING"
       /\ SplitChannels(conns'[ws'].url, <<>>) =
            { toLowerCase(symbols[i]) \o AtTicker : i \in 1..Len(symbols) }
       /\ \A c \in DOMAIN conns :
            /\ conns[c].readyState \in {"CLOSING", "CLOSED"}
            /\ conns'[c] = conns[c]
     ]_vars

\* initializeWebSocket([BTC, sOL]) and then initializeWebSocket([sOL]) have
\* both returned.
C2_Witness ==
  /\ pc = "idle"
  /\ lastCall = [op |-> "initializeWebSocket", hadHandle |-> TRUE]
  /\ Len(conns) = 2
  /\ ws = 2
  /\ conns[1].url = <<"b","t","c">> \o AtTicker \o <<"/">> \o <<"s","o","l">> \o AtTicker
  /\ conns[2].url = <<"s","o","l">> \o AtTicker
  /\ conns[1].readyState \in {"CLOSING", "CLOSED"}

\* C3: closeWebSocket with no handle changes nothing and fails nowhere; with
\* a handle it closes that connection and clears the handle.
C3_CloseIdempotent ==
  [][closeWebSocket =>
       IF ws = Null
         THEN UNCHANGED <<ws, conns, events, errors, dropped, pc>>
         ELSE /\ ws' = Null
              /\ conns'[ws].readyState \in {"CLOSING", "CLOSED"}
              /\ \A c \in DOMAIN conns : c # ws => conns'[c] = conns[c]
              /\ DOMAIN conns' = DOMAIN conns
              /\ UNCHANGED <<events, errors, dropped, pc>>
     ]_vars

\* closeWebSocket ran with the handle already cleared by an earlier
\* closeWebSocket.
C3_Witness ==
  /\ lastCall = [op |-> "closeWebSocket", hadHandle |-> FALSE]
  /\ ws = Null
  /\ Len(conns) >= 1
  /\ LiveConns = {}

C10_EventsFromHandle ==
  [][events' # events =>
       /\ ws # Null
       /\ conns[ws].readyState = "OPEN"
       /\ conns[ws].inbox # <<>>
       /\ conns'[ws].inbox = Tail(conns[ws].inbox)
       /\ \A c \in DOMAIN conns : c # ws => conns'[c].inbox = conns[c].inbox
     ]_vars

\* A payload frame arrived on a connection that had been replaced or closed
\* and no priceUpdate came of it.
C10_Witness ==
  /\ Len(dropped) >= 1
  /\ "data" \in DOMAIN dropped[1]
  /\ events = <<>>
  /\ ws # 1

\* ------------------------------------------- claims on the catalog ranker

\* A settled fetch that failed: a network error or a non-success status.
Failed(resp) ==
  resp.kind = "networkError" \/ (resp.kind = "response" /\ ~resp.ok)

\* The limit in force: 300 when the argument is omitted.
EffectiveLimit == IF limit = <<>> THEN DefaultLimit ELSE limit[1]

\* C4: when the catalog request or the ticker request fails, fetchTopTokens
\* returns the empty sequence; it never throws to its caller.
C4_FailureYieldsEmpty ==
  /\ outcome # "threw"
  /\ (rpc = "done" /\ (Failed(exchangeInfo) \/ Failed(ticker24hr))) =>
       (result = <<>> /\ outcome = "returned")

\* The catalog arrived with pairs that pass the filter, the ticker request
\* came back with a non-success status, and the call is over.
C4_Witness ==
  /\ rpc = "done"
  /\ exchangeInfo.kind = "response" /\ exchangeInfo.ok
  /\ Len(usdtPairs) >= 1
  /\ ticker24hr = [kind |-> "response", ok |-> FALSE]

\* C5: every entry of the result comes from a catalog instrument that is
\* quoted in USDT, is TRADING and has neither DOWN nor UP in its symbol.
C5_OnlyFilteredPairs ==
  rpc = "done" =>
    \A i \in 1..Len(result) :
      \E p \in SeqElems(exchangeInfo.body) :
        /\ p.symbol = result[i].id
        /\ p.baseAsset = result[i].baseAsset
        /\ p.quoteAsset = result[i].quoteAsset
        /\ p.quoteAsset = "USDT"
        /\ p.status = "TRADING"
        /\ ~includes(p.symbol, DOWN)
        /\ ~includes(p.symbol, UP)

\* A catalog of a leveraged token, a pair that is not trading and BTCUSDT
\* was ranked without truncation: only BTCUSDT is in the result.
C5_Witness ==
  /\ rpc = "done"
  /\ limit = <<>>
  /\ Len(result) = 1
  /\ result[1].id = <<"B","T","C","U","S","D","T">>
  /\ Len(exchangeInfo.body) = 3
  /\ \E p, q \in SeqElems(exchangeInfo.body) :
       p.status = "BREAK" /\ includes(q.symbol, UP)

\* The priority of a result entry, and >= on numbers (false on NaN).
PriorityOfToken(tok) ==
  IF \E k \in 1..Len(MAJOR_TOKENS) : MAJOR_TOKENS[k] = tok.baseAsset THEN 1 ELSE 0
Geq(x, y) == ~x.nan /\ ~y.nan /\ x.v >= y.v

\* C6: in every result, for positions i < j the priority at i is >= the
\* priority at j, and with equal priorities the 24h volume at i is >= the
\* volume at j.
C6_RankOrder ==
  (rpc = "done" /\ outcome = "returned") =>
    \A i, j \in 1..Len(result) : i < j =>
      /\ PriorityOfToken(result[i]) >= PriorityOfToken(result[j])
      /\ PriorityOfToken(result[i]) = PriorityOfToken(result[j]) =>
           Geq(result[i].volume_24h, result[j].volume_24h)

\* C7 as claimed: for every limit, the result is no longer than the limit.
C7_LengthWithinAnyLimit ==
  rpc = "done" => Len(result) <= EffectiveLimit

\* C7, amended: for every limit that is not negative (300 when omitted),
\* the result is no longer than the limit.
C7_LengthWithinLimit ==
  (rpc = "done" /\ EffectiveLimit >= 0) => Len(result) <= EffectiveLimit

\* Two pairs passed the filter and fetchTopTokens(1) returned one of them.
C7_Witness ==
  /\ rpc = "done"
  /\ outcome = "returned"
  /\ limit = <<1>>
  /\ Len(usdtPairs) = 2
  /\ Len(result) = 1

\* Whether the exchange's string for a field is missing or does not parse.
FailsToParse(str) == str = Undefined \/ parseFloat(str).nan

\* C8: in every returned token, a numeric field whose exchange-supplied
\* string is missing or does not parse as a number is 0.
C8_ParseFailureIsZero ==
  (rpc = "done" /\ outcome = "returned") =>
    \A i \in 1..Len(result) :
      LET ticker == tickerMapGet(ticker24hr.body, result[i].id)
      IN /\ FailsToParse(ticker.lastPrice) => result[i].current_price = Num(0)
         /\ FailsToParse(ticker.quoteVolume) => result[i].market_cap = Num(0)
         /\ FailsToParse(ticker.priceChangePercent) =>
              result[i].price_change_percentage_24h = Num(0)
         /\ FailsToParse(ticker.volume) => result[i].volume_24h = Num(0)

====
